---- MODULE Spec2Model ----
(***************************************************************************)
(* Model of git-manager.py: the interactive GitHub manager and local git   *)
(* sync tool.  One action per menu handler.  Every handler records, for    *)
(* the menu action that ran last, the external interactions it made        *)
(* (trace), the text it displayed on the console (out) and the entries it  *)
(* handed to log_action (logged).                                          *)
(*                                                                         *)
(* Text is a sequence of segments.  A URL is a sequence over UrlAlphabet:  *)
(* "https://" is the literal scheme prefix, "@" the literal character,     *)
(* "/" a path separator and "txt" any run of other characters.  With that  *)
(* str.startswith("https://") is a test of the first segment and           *)
(* "@" in s is a membership test.                                          *)
(***************************************************************************)
EXTENDS Integers, Sequences, FiniteSets, TLC

\* ---- bounds ------------------------------------------------------------
MaxUrlLen == 3
MaxAhead == 2

\* ---- configuration (git-manager.py, CONFIG section) ---------------------
REPO_PATH == "REPO_PATH"
TOKEN == "TOKEN"
DEFAULT_COMMIT_MSG == "Welcome to Blackland"
SYNC_COMMIT_MSG == "Auto sync via Unified Manager"

UrlAlphabet == {"https://", "@", "txt", "/"}

RECURSIVE SeqsUpTo(_, _)
SeqsUpTo(S, n) ==
  IF n = 0 THEN {<<>>}
  ELSE LET shorter == SeqsUpTo(S, n - 1)
       IN shorter \cup {Append(s, x) : s \in {t \in shorter : Len(t) = n - 1}, x \in S}

\* What the user can type at the clone-URL prompt; <<>> is the empty answer.
Urls == SeqsUpTo(UrlAlphabet, MaxUrlLen)

\* Exit status of an external process, and outcome of a remote API call
\* ("ghx": GithubException, "exc": any other exception).
ExitStatus == {"ok", "nonzero"}
ApiOutcome == {"ok", "ghx", "exc"}

\* ---- text helpers -------------------------------------------------------
Contains(s, x) == \E i \in 1..Len(s) : s[i] = x

StartsWithHttps(url) == Len(url) >= 1 /\ url[1] = "https://"

\* str.replace("https://", f"https://{token}@"): every occurrence is replaced.
RECURSIVE InjectToken(_, _)
InjectToken(url, token) ==
  IF url = <<>> THEN <<>>
  ELSE (IF Head(url) = "https://" THEN <<"https://", token, "@">> ELSE <<Head(url)>>)
       \o InjectToken(Tail(url), token)

\* One external interaction of a handler.
Ev(kind, name, arg, rc) == [kind |-> kind, ev |-> name, arg |-> arg, rc |-> rc]

\* str(CalledProcessError): "Command '<cmd>' returned non-zero exit status N."
CalledProcessError(cmd) == <<"Command">> \o cmd \o <<"returned non-zero exit status">>

\* run_shell(cmd): displays the command line, then runs it with check=True,
\* which raises CalledProcessError on a non-zero exit status.
RunShellOut(cmd) == <<"Running:">> \o cmd

\* Raises with check=True left out: no exit status raises.
RaisesNever(rc) == FALSE

Raises(rc) == rc # "ok"

\* ---- ensure_local_repo --------------------------------------------------
\* SafeUrl without the test for "@".
SafeUrlNoAtTest(repo_url, token) ==
  IF StartsWithHttps(repo_url) /\ token # ""
  THEN InjectToken(repo_url, token)
  ELSE repo_url

SafeUrl(repo_url, token) ==
  IF StartsWithHttps(repo_url) /\ ~Contains(repo_url, "@") /\ token # ""
  THEN InjectToken(repo_url, token)
  ELSE repo_url

\* IsLocalRepo looking for a directory that never exists.
IsLocalRepoNever(valid) == FALSE

\* os.path.isdir(repo_path) and os.path.isdir(repo_path/.git)
IsLocalRepo(valid) == valid

\* Declined with the answer never looked at: every answer goes on to clone.
DeclinedNever(choice) == FALSE

\* Any answer but "1" to the clone prompt cancels.
Declined(choice) == choice # "1"

CloneCmd(safe_url) == <<"git", "clone">> \o safe_url \o <<REPO_PATH>>

EnsureLocalRepo(valid, choice, repo_url, token, cloneRc) ==
  LET notFound == <<<<"Repository not found at:", REPO_PATH>>,
                    <<"1) Clone a new repository">>, <<"2) Cancel / Exit">>>>
      askChoice == Ev("prompt", "choice", <<choice>>, "ok")
      askUrl == Ev("prompt", "url", repo_url, "ok")
      safe_url == SafeUrl(repo_url, token)
      cmd == CloneCmd(safe_url)
      steps == <<askChoice, askUrl, Ev("fs", "makedirs", <<>>, "ok"),
                 Ev("proc", "git clone", safe_url, cloneRc)>>
  IN IF IsLocalRepo(valid)
     THEN [ok |-> TRUE, trace |-> <<>>, out |-> <<>>, logged |-> <<>>]
     ELSE IF Declined(choice)
     THEN [ok |-> FALSE, trace |-> <<askChoice>>,
           out |-> notFound \o <<<<"Cancelled by user. Exiting local sync.">>>>,
           logged |-> <<>>]
     ELSE IF repo_url = <<>>
     THEN [ok |-> FALSE, trace |-> <<askChoice, askUrl>>,
           out |-> notFound \o <<<<"No URL provided. Exiting...">>>>,
           logged |-> <<>>]
     ELSE IF ~Raises(cloneRc)
     THEN [ok |-> TRUE, trace |-> steps,
           out |-> notFound \o <<RunShellOut(cmd),
                                  <<"Repository cloned successfully into:", REPO_PATH>>>>,
           logged |-> <<<<"Cloned repository from">> \o repo_url \o <<"to", REPO_PATH>>>>]
     ELSE [ok |-> FALSE, trace |-> steps,
           out |-> notFound \o <<RunShellOut(cmd),
                                  <<"Failed to clone repository:">> \o CalledProcessError(cmd)>>,
           logged |-> <<<<"Failed to clone repository:">> \o CalledProcessError(cmd)>>]

\* ---- fix_local_remote_with_token ----------------------------------------
\* origin = <<>> stands for a checkout without an origin remote: get-url fails.
NeedsToken(origin_url) == StartsWithHttps(origin_url) /\ ~Contains(origin_url, "@")

FixLocalRemoteWithToken(origin_url, token, setRc) ==
  LET getUrl == Ev("proc", "git remote get-url", origin_url,
                   IF origin_url = <<>> THEN "nonzero" ELSE "ok")
      new_url == InjectToken(origin_url, token)
  IN IF origin_url = <<>>
     THEN [origin |-> origin_url, trace |-> <<getUrl>>, logged |-> <<>>]
     ELSE IF NeedsToken(origin_url)
     THEN [origin |-> IF setRc = "ok" THEN new_url ELSE origin_url,
           trace |-> <<getUrl, Ev("proc", "git remote set-url", new_url, setRc)>>,
           logged |-> IF setRc = "ok"
                      THEN <<<<"Updated origin remote for", REPO_PATH>>>>
                      ELSE <<>>]
     ELSE [origin |-> origin_url, trace |-> <<getUrl>>, logged |-> <<>>]

\* ---- local_git_menu: identity and the three operations ------------------
GitCmd(sub) == <<"git", "-C", REPO_PATH>> \o sub

ConfigureIdentity(nameRc, emailRc) ==
  LET setName == Ev("proc", "git config user.name", <<>>, nameRc)
      setEmail == Ev("proc", "git config user.email", <<>>, emailRc)
      warn == <<<<"Warning: Could not set git identity (non-fatal).">>>>
  IN IF nameRc # "ok" THEN [trace |-> <<setName>>, out |-> warn]
     ELSE IF emailRc # "ok" THEN [trace |-> <<setName, setEmail>>, out |-> warn]
     ELSE [trace |-> <<setName, setEmail>>, out |-> <<>>]

\* except subprocess.CalledProcessError in the menu loop.
GitCommandFailed(cmd) ==
  [out |-> <<<<"Git command failed:">> \o CalledProcessError(cmd)>>,
   logged |-> <<<<"Git command failed for", REPO_PATH>> \o CalledProcessError(cmd)>>]

Result(trace, out, logged, committed, pushed) ==
  [ret |-> "None", trace |-> trace, out |-> out, logged |-> logged,
   committed |-> committed, pushed |-> pushed]

Pull(pullRc) ==
  LET cmd == GitCmd(<<"pull">>)
      head == <<<<"Pulling latest changes...">>, RunShellOut(cmd)>>
      run == <<Ev("proc", "git pull", <<>>, pullRc)>>
  IN IF ~Raises(pullRc)
     THEN Result(run, head \o <<<<"Repository updated successfully!">>>>,
                 <<<<"Pulled latest changes in", REPO_PATH>>>>, FALSE, FALSE)
     ELSE Result(run, head \o GitCommandFailed(cmd).out,
                 GitCommandFailed(cmd).logged, FALSE, FALSE)

\* CommitSucceeded with the return code never looked at.
CommitStatusIgnored(commitRc) == TRUE

\* commit runs without check=True; the handlers test commit.returncode == 0.
CommitSucceeded(commitRc) == commitRc = "ok"

\* The stage / commit / push tail shared in shape by Push and Sync; each
\* passes its own messages.
StageCommitPush(commit_msg, addRc, commitRc, pushRc, pre, preOut, doneOut, doneLog, noopOut, noopLog) ==
  LET addCmd == GitCmd(<<"add", ".">>)
      pushCmd == GitCmd(<<"push">>)
      ask == Ev("prompt", "commit message", <<commit_msg>>, "ok")
      add == Ev("proc", "git add", <<>>, addRc)
      commit == Ev("proc", "git commit", <<"-m", commit_msg>>, commitRc)
      push == Ev("proc", "git push", <<>>, pushRc)
      staged == preOut \o <<RunShellOut(addCmd)>>
  IN IF Raises(addRc)
     THEN Result(pre \o <<ask, add>>, staged \o GitCommandFailed(addCmd).out,
                 GitCommandFailed(addCmd).logged, FALSE, FALSE)
     ELSE IF ~CommitSucceeded(commitRc)
     THEN Result(pre \o <<ask, add, commit>>, staged \o <<noopOut>>, <<noopLog>>,
                 FALSE, FALSE)
     ELSE IF Raises(pushRc)
     THEN Result(pre \o <<ask, add, commit, push>>,
                 staged \o <<RunShellOut(pushCmd)>> \o GitCommandFailed(pushCmd).out,
                 GitCommandFailed(pushCmd).logged, TRUE, FALSE)
     ELSE Result(pre \o <<ask, add, commit, push>>,
                 staged \o <<RunShellOut(pushCmd), doneOut>>,
                 <<doneLog \o <<commit_msg>>>>, TRUE, TRUE)

\* Push with the push step launched a second time after the first.
PushRetried(commit_msg, addRc, commitRc, pushRc) ==
  LET r == StageCommitPush(commit_msg, addRc, commitRc, pushRc, <<>>,
                           <<<<"Pushing local changes...">>>>,
                           <<"Successfully pushed to GitHub!">>,
                           <<"Pushed changes in", REPO_PATH, "with message">>,
                           <<"Nothing to commit (working tree clean).">>,
                           <<"Nothing to commit in", REPO_PATH>>)
  IN IF r.committed
     THEN [r EXCEPT !.trace = r.trace \o <<Ev("proc", "git push", <<>>, pushRc)>>]
     ELSE r

Push(commit_msg, addRc, commitRc, pushRc) ==
  StageCommitPush(commit_msg, addRc, commitRc, pushRc, <<>>,
                  <<<<"Pushing local changes...">>>>,
                  <<"Successfully pushed to GitHub!">>,
                  <<"Pushed changes in", REPO_PATH, "with message">>,
                  <<"Nothing to commit (working tree clean).">>,
                  <<"Nothing to commit in", REPO_PATH>>)

Sync(commit_msg, pullRc, addRc, commitRc, pushRc) ==
  LET pullCmd == GitCmd(<<"pull">>)
      pull == Ev("proc", "git pull", <<>>, pullRc)
      head == <<<<"Syncing repository (pull then push)...">>, RunShellOut(pullCmd)>>
  IN IF Raises(pullRc)
     THEN Result(<<pull>>, head \o GitCommandFailed(pullCmd).out,
                 GitCommandFailed(pullCmd).logged, FALSE, FALSE)
     ELSE StageCommitPush(commit_msg, addRc, commitRc, pushRc, <<pull>>, head,
                          <<"Repository synced successfully!">>,
                          <<"Synced repository", REPO_PATH, "with message">>,
                          <<"Nothing to sync (working tree clean).">>,
                          <<"Nothing to sync in", REPO_PATH>>)

\* ---- upload_file_to_github -----------------------------------------------
\* failAt names the first step that raises ("none": every step succeeds);
\* rmRc is the outcome of the shutil.rmtree in the finally block.
UploadSteps == <<"clone_from", "copy", "git add", "commit", "push">>
UploadFailures == {UploadSteps[i] : i \in 1..Len(UploadSteps)} \cup {"none"}

RECURSIVE UploadRun(_, _)
UploadRun(i, failAt) ==
  IF i > Len(UploadSteps) THEN <<>>
  ELSE IF UploadSteps[i] = failAt THEN <<Ev("git", UploadSteps[i], <<>>, "exc")>>
  ELSE <<Ev("git", UploadSteps[i], <<>>, "ok")>> \o UploadRun(i + 1, failAt)

\* Finally without the removal.
FinallyForgotten(rmRc) == <<>>

\* finally: try shutil.rmtree(temp_dir), any exception swallowed.
Finally(rmRc) == <<Ev("fs", "rmtree temp_dir", <<>>, rmRc)>>

UploadFileToGithub(failAt, rmRc) ==
  LET mk == Ev("fs", "mkdtemp", <<>>, "ok")
      cloning == <<"Cloning repo into temp_dir">>
  IN IF failAt = "none"
     THEN [ret |-> "True", trace |-> <<mk>> \o UploadRun(1, failAt) \o Finally(rmRc),
           out |-> <<cloning, <<"Successfully pushed">>>>,
           logged |-> <<<<"Pushed to repo with message">>>>]
     ELSE [ret |-> "False", trace |-> <<mk>> \o UploadRun(1, failAt) \o Finally(rmRc),
           out |-> <<cloning, <<"Error uploading to GitHub:", failAt>>>>,
           logged |-> <<<<"Error uploading to GitHub:", failAt>>>>]

\* ---- API manager functions (PyGithub) ------------------------------------
\* Free-text prompts whose answer does not steer the control flow are not
\* recorded; confirmations and the remote calls are.
Api(name, rc) == Ev("api", name, <<>>, rc)

ApiResult(ret, trace, out, logged) ==
  [ret |-> ret, trace |-> trace, out |-> out, logged |-> logged]

ListReposApi(rc) ==
  IF rc = "ok" THEN ApiResult("repos", <<Api("get_repos", rc)>>, <<>>, <<>>)
  ELSE ApiResult("[]", <<Api("get_repos", rc)>>, <<<<"Failed to load repositories">>>>, <<>>)

CreateRepo(rc) ==
  LET call == <<Api("create_repo", rc)>>
  IN IF rc = "ok"
     THEN ApiResult("repo", call, <<<<"Created repository">>>>, <<<<"Created repository">>>>)
     ELSE IF rc = "ghx"
     THEN ApiResult("None", call, <<<<"GitHub API error">>>>, <<>>)
     ELSE ApiResult("None", call, <<<<"Error creating repository">>>>, <<>>)

\* RenameRepo trying the call a second time when it raised.
RenameRepoRetries(rc) ==
  LET call == <<Api("edit name", rc)>>
  IN IF rc = "ok"
     THEN ApiResult("None", call, <<<<"Renamed to">>>>, <<<<"Renamed repo">>>>)
     ELSE ApiResult("None", call \o call, <<<<"Rename failed">>>>, <<>>)

RenameRepo(rc) ==
  LET call == <<Api("edit name", rc)>>
  IN IF rc = "ok"
     THEN ApiResult("None", call, <<<<"Renamed to">>>>, <<<<"Renamed repo">>>>)
     ELSE ApiResult("None", call, <<<<"Rename failed">>>>, <<>>)

\* DeleteRepoConfirm with the answer to the confirmation never looked at.
DeleteRepoUnconfirmed(confirm_delete, rc) ==
  LET ask == Ev("prompt", "confirm delete", <<confirm_delete>>, "ok")
  IN IF rc = "ok"
     THEN ApiResult("True", <<ask, Api("delete", rc)>>,
                    <<<<"Deleted repository">>>>, <<<<"Deleted repo">>>>)
     ELSE ApiResult("False", <<ask, Api("delete", rc)>>, <<<<"Delete failed">>>>, <<>>)

DeleteRepoConfirm(confirm_delete, rc) ==
  LET ask == Ev("prompt", "confirm delete", <<confirm_delete>>, "ok")
  IN IF ~confirm_delete
     THEN ApiResult("False", <<ask>>, <<<<"Delete cancelled.">>>>, <<>>)
     ELSE IF rc = "ok"
     THEN ApiResult("True", <<ask, Api("delete", rc)>>,
                    <<<<"Deleted repository">>>>, <<<<"Deleted repo">>>>)
     ELSE ApiResult("False", <<ask, Api("delete", rc)>>, <<<<"Delete failed">>>>, <<>>)

ChangeRepoVisibility(make_private, rc) ==
  LET ask == Ev("prompt", "make private", <<make_private>>, "ok")
      call == <<ask, Api("edit private", rc)>>
      current == <<"Current visibility">>
  IN IF rc = "ok"
     THEN ApiResult("None", call, <<current, <<"Visibility changed to", make_private>>>>,
                    <<<<"Changed visibility", make_private>>>>)
     ELSE ApiResult("None", call, <<current, <<"Visibility change failed">>>>, <<>>)

TransferRepository(confirm_transfer, rc) ==
  LET ask == Ev("prompt", "confirm transfer", <<confirm_transfer>>, "ok")
      warn == <<"Repository transfer is a sensitive operation">>
  IN IF ~confirm_transfer
     THEN ApiResult("None", <<ask>>, <<warn, <<"Transfer cancelled.">>>>, <<>>)
     ELSE IF rc = "ok"
     THEN ApiResult("None", <<ask, Api("POST transfer", rc)>>,
                    <<warn, <<"Transfer requested">>>>, <<<<"Transfer requested">>>>)
     ELSE ApiResult("None", <<ask, Api("POST transfer", rc)>>,
                    <<warn, <<"Transfer failed">>>>, <<>>)

ListBranches(rc) ==
  IF rc = "ok"
  THEN ApiResult("branches", <<Api("get_branches", rc)>>, <<<<"Branches in">>>>, <<>>)
  ELSE ApiResult("[]", <<Api("get_branches", rc)>>, <<<<"Failed to list branches">>>>, <<>>)

CreateBranch(getRc, createRc) ==
  LET get == Api("get_branch", getRc)
      create == Api("create_git_ref", createRc)
      failed == <<<<"Error creating branch">>>>
  IN IF getRc # "ok" THEN ApiResult("None", <<get>>, failed, <<>>)
     ELSE IF createRc # "ok" THEN ApiResult("None", <<get, create>>, failed, <<>>)
     ELSE ApiResult("new_branch", <<get, create>>,
                    <<<<"Created branch">>>>, <<<<"Created branch">>>>)

DeleteBranch(isDefault, getRc, delRc) ==
  LET ask == Ev("prompt", "branch name", <<isDefault>>, "ok")
      get == Api("get_git_ref", getRc)
      del == Api("ref.delete", delRc)
      failed == <<<<"Delete branch failed">>>>
  IN IF isDefault
     THEN ApiResult("None", <<ask>>,
                    <<<<"Cannot delete the default branch via this tool.">>>>, <<>>)
     ELSE IF getRc # "ok" THEN ApiResult("None", <<ask, get>>, failed, <<>>)
     ELSE IF delRc # "ok" THEN ApiResult("None", <<ask, get, del>>, failed, <<>>)
     ELSE ApiResult("None", <<ask, get, del>>,
                    <<<<"Deleted branch">>>>, <<<<"Deleted branch">>>>)

SwitchDefaultBranch(rc) ==
  LET call == <<Api("edit default_branch", rc)>>
  IN IF rc = "ok"
     THEN ApiResult("None", call, <<<<"Default branch set to">>>>,
                    <<<<"Set default branch">>>>)
     ELSE ApiResult("None", call, <<<<"Failed to switch default branch">>>>, <<>>)

\* The inner try covers get_contents and update_file: a GithubException from
\* either one leads to create_file.
CreateOrEditFileViaApi(getRc, updRc, createRc) ==
  LET get == Api("get_contents", getRc)
      upd == Api("update_file", updRc)
      create == Api("create_file", createRc)
      failed == <<<<"API file operation failed">>>>
      created(before) ==
        IF createRc = "ok"
        THEN ApiResult("None", before \o <<create>>,
                       <<<<"Created on branch">>>>, <<<<"Created file">>>>)
        ELSE ApiResult("None", before \o <<create>>, failed, <<>>)
  IN IF getRc = "exc" THEN ApiResult("None", <<get>>, failed, <<>>)
     ELSE IF getRc = "ghx" THEN created(<<get>>)
     ELSE IF updRc = "exc" THEN ApiResult("None", <<get, upd>>, failed, <<>>)
     ELSE IF updRc = "ghx" THEN created(<<get, upd>>)
     ELSE ApiResult("None", <<get, upd>>,
                    <<<<"Updated on branch">>>>, <<<<"Updated file">>>>)

CreateFolderPlaceholder(rc) ==
  LET call == <<Api("create_file", rc)>>
  IN IF rc = "ok"
     THEN ApiResult("None", call, <<<<"Created folder">>>>,
                    <<<<"Created folder placeholder">>>>)
     ELSE ApiResult("None", call, <<<<"Failed to create folder">>>>, <<>>)

DeleteFileViaApi(getRc, delRc) ==
  LET get == Api("get_contents", getRc)
      del == Api("delete_file", delRc)
      failed == <<<<"Error">>>>
  IN IF getRc # "ok" THEN ApiResult("None", <<get>>, failed, <<>>)
     ELSE IF delRc # "ok" THEN ApiResult("None", <<get, del>>, failed, <<>>)
     ELSE ApiResult("None", <<get, del>>, <<<<"Deleted on branch">>>>, <<<<"Deleted file">>>>)

ListFilesViaApi(rc) ==
  LET call == <<Api("get_contents", rc)>>
  IN IF rc = "ok" THEN ApiResult("None", call, <<<<"Files in">>>>, <<>>)
     ELSE ApiResult("None", call, <<<<"Failed to list files">>>>, <<>>)

ViewFileViaApi(rc) ==
  LET call == <<Api("get_contents", rc)>>
  IN IF rc = "ok" THEN ApiResult("None", call, <<<<"file content">>>>, <<>>)
     ELSE ApiResult("None", call, <<<<"Failed to view file">>>>, <<>>)

\* select_repo: answer is what the user does with the list ("pick" a listed
\* repository, "new" for 0 / "Create one now?", "bad" for anything else).
SelectRepo(listRc, haveRepos, answer, createRc) ==
  LET l == ListReposApi(listRc)
      ask == Ev("prompt", "repo number", <<answer>>, "ok")
      c == CreateRepo(createRc)
  IN IF listRc # "ok" \/ ~haveRepos
     THEN IF answer = "new"
          THEN ApiResult(c.ret, l.trace \o <<ask>> \o c.trace,
                         l.out \o <<<<"No repositories found.">>>> \o c.out, c.logged)
          ELSE ApiResult("None", l.trace \o <<ask>>,
                         l.out \o <<<<"No repositories found.">>>>, <<>>)
     ELSE IF answer = "new"
     THEN ApiResult(c.ret, l.trace \o <<ask>> \o c.trace,
                    <<<<"Your Repositories">>>> \o c.out, c.logged)
     ELSE IF answer = "pick"
     THEN ApiResult("repo", l.trace \o <<ask>>, <<<<"Your Repositories">>>>, <<>>)
     ELSE ApiResult("None", l.trace \o <<ask>>,
                    <<<<"Your Repositories">>, <<"Invalid input">>>>, <<>>)

\* ---- state ---------------------------------------------------------------
VARIABLES
  pc,          \* the prompt the program waits at
  ok,          \* local_git_menu's ok: ensure_local_repo returned True in the
               \* call of local_git_menu now running (FALSE outside one)
  repoValid,   \* REPO_PATH is a directory holding .git
  parentDirs,  \* the parent directories of REPO_PATH exist
  dirty,       \* the working tree has uncommitted changes
  ahead,       \* local commits not yet pushed
  origin,      \* URL of the origin remote (<<>>: none)
  before,      \* the checkout as it was when the step that ran last started
  lastOp,      \* the function (or user step) that ran last
  ret,         \* what it returned
  trace,       \* its external interactions, in order
  out,         \* what it displayed on the console
  logged       \* what it passed to log_action

vars == <<pc, ok, repoValid, parentDirs, dirty, ahead, origin, before,
          lastOp, ret, trace, out, logged>>

checkout == <<repoValid, parentDirs, dirty, ahead, origin>>

Checkout ==
  [repoValid |-> repoValid, parentDirs |-> parentDirs, dirty |-> dirty,
   ahead |-> ahead, origin |-> origin]

Init ==
  /\ pc = "main"
  /\ ok = FALSE
  /\ repoValid \in BOOLEAN
  /\ parentDirs \in IF repoValid THEN {TRUE} ELSE BOOLEAN
  /\ dirty \in IF repoValid THEN BOOLEAN ELSE {FALSE}
  /\ ahead = 0
  /\ origin \in IF repoValid THEN Urls ELSE {<<>>}
  /\ before = Checkout
  /\ lastOp = "startup"
  /\ ret = "None"
  /\ trace = <<>>
  /\ out = <<<<"Authenticated as">>>>
  /\ logged = <<>>

\* The handler op ran with result r and the program now waits at prompt next.
Step(op, r, next) ==
  /\ before' = Checkout
  /\ lastOp' = op
  /\ ret' = r.ret
  /\ trace' = r.trace
  /\ out' = r.out
  /\ logged' = r.logged
  /\ pc' = next

\* A step of any handler but the two that start and end a local_git_menu call.
Ran(op, r, next) == Step(op, r, next) /\ ok' = ok

\* Functions reached both from the main menu (after select_repo) and from
\* repo_manage_menu return to the menu that called them.
Caller == IF pc = "manage" THEN "manage" ELSE "main"

\* ---- main_menu ------------------------------------------------------------
MainCreateRepo ==
  /\ pc = "main"
  /\ \E rc \in ApiOutcome : Ran("create_repo", CreateRepo(rc), "main")
  /\ UNCHANGED checkout

\* Choices 2, 3, 4 and 5 all start with select_repo.
MainSelectRepo ==
  /\ pc = "main"
  /\ \E next \in {"sel_rename", "sel_delete", "manage", "sel_upload"},
        listRc \in ApiOutcome, haveRepos \in BOOLEAN,
        answer \in {"pick", "new", "bad"} :
     \E createRc \in (IF answer = "new" THEN ApiOutcome ELSE {"none"}) :
       LET r == SelectRepo(listRc, haveRepos, answer, createRc)
       IN Ran("select_repo", r, IF r.ret = "repo" THEN next ELSE "main")
  /\ UNCHANGED checkout

MainListRepos ==
  /\ pc = "main"
  /\ \E rc \in ApiOutcome :
       LET l == ListReposApi(rc)
       IN Ran("list_repos", ApiResult(l.ret, l.trace, l.out \o <<<<"Your Repositories">>>>,
                                      l.logged), "main")
  /\ UNCHANGED checkout

MainExit ==
  /\ pc = "main"
  /\ Ran("exit", ApiResult("None", <<>>, <<<<"Exiting...">>>>,
                           <<<<"Exited Unified GitHub Manager">>>>), "exit")
  /\ UNCHANGED checkout

MainInvalid ==
  /\ pc = "main"
  /\ Ran("invalid", ApiResult("None", <<>>, <<<<"Invalid input">>>>, <<>>), "main")
  /\ UNCHANGED checkout

\* ---- repository functions -------------------------------------------------
DoRenameRepo ==
  /\ pc \in {"sel_rename", "manage"}
  /\ \E rc \in ApiOutcome : Ran("rename_repo", RenameRepo(rc), Caller)
  /\ UNCHANGED checkout

\* repo_manage_menu returns to the main menu once the repository is deleted.
DoDeleteRepo ==
  /\ pc \in {"sel_delete", "manage"}
  /\ \E confirm_delete \in BOOLEAN, rc \in ApiOutcome :
       LET r == DeleteRepoConfirm(confirm_delete, rc)
       IN Ran("delete_repo_confirm", r, IF r.ret = "True" THEN "main" ELSE Caller)
  /\ UNCHANGED checkout

DoChangeVisibility ==
  /\ pc = "manage"
  /\ \E make_private \in BOOLEAN, rc \in ApiOutcome :
       Ran("change_repo_visibility", ChangeRepoVisibility(make_private, rc), "manage")
  /\ UNCHANGED checkout

DoTransfer ==
  /\ pc = "manage"
  /\ \E confirm_transfer \in BOOLEAN, rc \in ApiOutcome :
       Ran("transfer_repository", TransferRepository(confirm_transfer, rc), "manage")
  /\ UNCHANGED checkout

\* Option f lists the branches, then asks which branch operation to run.
DoListBranches ==
  /\ pc = "manage"
  /\ \E rc \in ApiOutcome : Ran("list_branches", ListBranches(rc), "branches")
  /\ UNCHANGED checkout

DoCreateBranch ==
  /\ pc = "branches"
  /\ \E getRc \in ApiOutcome, createRc \in ApiOutcome :
       Ran("create_branch", CreateBranch(getRc, createRc), "manage")
  /\ UNCHANGED checkout

DoDeleteBranch ==
  /\ pc = "branches"
  /\ \E isDefault \in BOOLEAN, getRc \in ApiOutcome, delRc \in ApiOutcome :
       Ran("delete_branch", DeleteBranch(isDefault, getRc, delRc), "manage")
  /\ UNCHANGED checkout

DoSwitchDefaultBranch ==
  /\ pc = "branches"
  /\ \E rc \in ApiOutcome :
       Ran("switch_default_branch", SwitchDefaultBranch(rc), "manage")
  /\ UNCHANGED checkout

\* Any other answer at a sub-prompt or at the menu itself.
ManageInvalid ==
  /\ pc \in {"manage", "branches"}
  /\ Ran("invalid", ApiResult("None", <<>>,
                              IF pc = "manage" THEN <<<<"Invalid option">>>> ELSE <<>>,
                              <<>>), "manage")
  /\ UNCHANGED checkout

ManageReturn ==
  /\ pc = "manage"
  /\ Ran("return", ApiResult("None", <<>>, <<>>, <<>>), "main")
  /\ UNCHANGED checkout

\* ---- file functions -------------------------------------------------------
DoCreateFolder ==
  /\ pc = "manage"
  /\ \E rc \in ApiOutcome :
       Ran("create_folder_placeholder", CreateFolderPlaceholder(rc), "manage")
  /\ UNCHANGED checkout

DoCreateOrEditFile ==
  /\ pc = "manage"
  /\ \E getRc \in ApiOutcome, updRc \in ApiOutcome, createRc \in ApiOutcome :
       Ran("create_or_edit_file_via_api",
           CreateOrEditFileViaApi(getRc, updRc, createRc), "manage")
  /\ UNCHANGED checkout

DoDeleteFile ==
  /\ pc = "manage"
  /\ \E getRc \in ApiOutcome, delRc \in ApiOutcome :
       Ran("delete_file_via_api", DeleteFileViaApi(getRc, delRc), "manage")
  /\ UNCHANGED checkout

DoListFiles ==
  /\ pc = "manage"
  /\ \E rc \in ApiOutcome : Ran("list_files_via_api", ListFilesViaApi(rc), "manage")
  /\ UNCHANGED checkout

DoViewFile ==
  /\ pc = "manage"
  /\ \E rc \in ApiOutcome : Ran("view_file_via_api", ViewFileViaApi(rc), "manage")
  /\ UNCHANGED checkout

DoUpload ==
  /\ pc \in {"sel_upload", "manage"}
  /\ \E failAt \in UploadFailures, rmRc \in {"ok", "exc"} :
       Ran("upload_file_to_github", UploadFileToGithub(failAt, rmRc), Caller)
  /\ UNCHANGED checkout

\* ---- local_git_menu --------------------------------------------------------
\* The path prompt is answered with REPO_PATH.  ensure_local_repo runs first;
\* local_git_menu goes on to the identity and remote set-up only if it
\* returned True.
CloneEvents(t) == {i \in 1..Len(t) : t[i].ev = "git clone"}

\* AfterEnsure with the test of ok left out.
AfterEnsureUnchecked(ensured) == "setup"

\* "if not ok: return" sends a failed ensure_local_repo back to the main menu.
AfterEnsure(ensured) == IF ensured THEN "setup" ELSE "main"

LocalEnsure ==
  /\ pc = "main"
  /\ \E choice \in (IF repoValid THEN {"none"} ELSE {"1", "2"}) :
     \E repo_url \in (IF choice = "1" THEN Urls ELSE {<<>>}) :
     \E cloneRc \in (IF repo_url # <<>> THEN ExitStatus ELSE {"none"}) :
       LET e == EnsureLocalRepo(repoValid, choice, repo_url, TOKEN, cloneRc)
           cloned == \E i \in CloneEvents(e.trace) : e.trace[i].rc = "ok"
           cloneArg == e.trace[CHOOSE i \in CloneEvents(e.trace) : TRUE].arg
       IN /\ Step("ensure_local_repo",
                  ApiResult(IF e.ok THEN "True" ELSE "False", e.trace, e.out, e.logged),
                  AfterEnsure(e.ok))
          /\ ok' = e.ok
          /\ repoValid' = (repoValid \/ cloned)
          /\ parentDirs' = (parentDirs \/ \E i \in 1..Len(e.trace) : e.trace[i].ev = "makedirs")
          /\ dirty' = IF cloned THEN FALSE ELSE dirty
          /\ ahead' = IF cloned THEN 0 ELSE ahead
          /\ origin' = IF cloned THEN cloneArg ELSE origin

LocalSetup ==
  /\ pc = "setup"
  /\ \E nameRc \in ExitStatus, emailRc \in ExitStatus, setRc \in ExitStatus :
       LET c == ConfigureIdentity(nameRc, emailRc)
           f == FixLocalRemoteWithToken(origin, TOKEN, setRc)
       IN /\ Ran("local_git_menu",
                 ApiResult("None", c.trace \o f.trace, c.out, f.logged), "local")
          /\ origin' = f.origin
  /\ UNCHANGED <<repoValid, parentDirs, dirty, ahead>>

\* git commit exits non-zero on a clean tree; on a dirty one it can succeed
\* or fail (a hook, a missing identity).
CommitStatus == IF dirty THEN ExitStatus ELSE {"nonzero"}

Committed(r) ==
  /\ dirty' = IF r.committed THEN FALSE ELSE dirty
  /\ ahead' = IF r.pushed THEN 0 ELSE IF r.committed THEN ahead + 1 ELSE ahead

LocalPull ==
  /\ pc = "local"
  /\ \E pullRc \in ExitStatus : Ran("pull", Pull(pullRc), "local")
  /\ UNCHANGED checkout

LocalPush ==
  /\ pc = "local"
  /\ \E commit_msg \in {DEFAULT_COMMIT_MSG, "fix"}, addRc \in ExitStatus,
        commitRc \in CommitStatus, pushRc \in ExitStatus :
       LET r == Push(commit_msg, addRc, commitRc, pushRc)
       IN Ran("push", r, "local") /\ Committed(r)
  /\ UNCHANGED <<repoValid, parentDirs, origin>>

LocalSync ==
  /\ pc = "local"
  /\ \E commit_msg \in {SYNC_COMMIT_MSG, "fix"}, pullRc \in ExitStatus,
        addRc \in ExitStatus, commitRc \in CommitStatus, pushRc \in ExitStatus :
       LET r == Sync(commit_msg, pullRc, addRc, commitRc, pushRc)
       IN Ran("sync", r, "local") /\ Committed(r)
  /\ UNCHANGED <<repoValid, parentDirs, origin>>

LocalExit ==
  /\ pc = "local"
  /\ Step("exit_local", ApiResult("None", <<>>, <<<<"Exiting local git menu.">>>>,
                                  <<<<"Exited local git menu for", REPO_PATH>>>>), "main")
  /\ ok' = FALSE
  /\ UNCHANGED checkout

LocalInvalid ==
  /\ pc = "local"
  /\ Ran("invalid", ApiResult("None", <<>>, <<<<"Invalid choice. Try again.">>>>, <<>>),
         "local")
  /\ UNCHANGED checkout

\* The user edits files of the checkout between two menu actions.
EditWorkingTree ==
  /\ repoValid /\ ~dirty /\ ahead < MaxAhead
  /\ pc # "exit"
  /\ Ran("edit", ApiResult("None", <<>>, <<>>, <<>>), pc)
  /\ dirty' = TRUE
  /\ UNCHANGED <<repoValid, parentDirs, ahead, origin>>

\* KeyboardInterrupt at a prompt: one log write, then the program ends.
Interrupt ==
  /\ pc # "exit"
  /\ Ran("interrupt", ApiResult("None", <<>>, <<<<"Interrupted by user. Exiting...">>>>,
                                <<<<"Interrupted by user - exited">>>>), "exit")
  /\ UNCHANGED checkout

\* The local-sync actions read and write the checkout and never look at what
\* an API function left behind; the API functions and the upload never touch
\* the checkout.  The two halves of the menu are therefore also checked apart.
NextLocal ==
  \/ LocalEnsure \/ LocalSetup \/ LocalPull \/ LocalPush \/ LocalSync
  \/ LocalExit \/ LocalInvalid
  \/ EditWorkingTree
  \/ MainInvalid \/ MainExit \/ Interrupt

NextApi ==
  \/ MainCreateRepo \/ MainSelectRepo \/ MainListRepos
  \/ DoRenameRepo \/ DoDeleteRepo \/ DoChangeVisibility \/ DoTransfer
  \/ DoListBranches \/ DoCreateBranch \/ DoDeleteBranch \/ DoSwitchDefaultBranch
  \/ ManageInvalid \/ ManageReturn
  \/ DoCreateFolder \/ DoCreateOrEditFile \/ DoDeleteFile \/ DoListFiles \/ DoViewFile
  \/ DoUpload
  \/ MainInvalid \/ MainExit \/ Interrupt

Next == NextLocal \/ NextApi

Spec == Init /\ [][Next]_vars
SpecLocal == Init /\ [][NextLocal]_vars
SpecApi == Init /\ [][NextApi]_vars

\* ==== properties ============================================================
Events(name) == {i \in 1..Len(trace) : trace[i].ev = name}
Launched(name) == Events(name) # {}
Shown == {out[i] : i \in 1..Len(out)}
Logged == {logged[i] : i \in 1..Len(logged)}

\* A URL carries user-info credentials when an "@" ends its authority part,
\* that is, comes before the first path separator.
HasUserInfo(url) ==
  \E i \in 1..Len(url) : url[i] = "@" /\ \A j \in 1..(i - 1) : url[j] # "/"

PlainHttps(url) == StartsWithHttps(url) /\ ~HasUserInfo(url)

\* The answer given at the clone-URL prompt of the last ensure_local_repo.
TypedUrl == trace[CHOOSE i \in Events("url") : TRUE].arg
CloneArg == trace[CHOOSE i \in Events("git clone") : TRUE].arg

ReportsFailure == \E m \in Shown : m[1] = "Git command failed:"
ReportsFailureOf(sub) ==
  \E m \in Shown : m = <<"Git command failed:">> \o CalledProcessError(GitCmd(sub))
ReportsNoOp ==
  \E m \in Shown : m \in {<<"Nothing to commit (working tree clean).">>,
                          <<"Nothing to sync (working tree clean).">>}

\* C1: during ensure-checkout of a plain HTTPS clone URL the token appears in
\* no text displayed on the console and in no action-log entry, whether the
\* clone succeeds or exits non-zero.
C1_TokenNeverShownOrLogged ==
  (lastOp = "ensure_local_repo" /\ Launched("git clone")
     /\ PlainHttps(TypedUrl) /\ Len(TypedUrl) >= 2)
    => \A m \in Shown \cup Logged : ~Contains(m, TOKEN)

\* C2: token injection never changes a URL that already carries user-info
\* credentials, neither the clone URL of ensure-checkout nor the origin URL of
\* the remote repair; only a plain HTTPS URL without credentials is rewritten.
C2_CredentialedUrlUntouched ==
  /\ (lastOp = "ensure_local_repo" /\ Launched("git clone"))
       => /\ HasUserInfo(TypedUrl) => CloneArg = TypedUrl
          /\ CloneArg # TypedUrl => PlainHttps(TypedUrl)
  /\ lastOp = "local_git_menu"
       => LET read == trace[CHOOSE i \in Events("git remote get-url") : TRUE].arg
          IN /\ HasUserInfo(read) => (~Launched("git remote set-url") /\ origin = read)
             /\ Launched("git remote set-url") => PlainHttps(read)
             /\ origin # read => PlainHttps(read)

C2_Witness ==
  /\ lastOp = "ensure_local_repo"
  /\ Launched("git clone")
  /\ StartsWithHttps(TypedUrl) /\ HasUserInfo(TypedUrl)
  /\ ret = "True"

\* C3: in Push and in Sync, a non-zero commit status on a clean working tree
\* launches no push, and is reported as a no-op, not as a failure; in Sync the
\* pull has run first.
CommitNonZero == \E i \in Events("git commit") : trace[i].rc # "ok"

C3_CleanTreeIsNoOp ==
  (lastOp \in {"push", "sync"} /\ ~before.dirty /\ CommitNonZero)
    => /\ ~Launched("git push")
       /\ ~ReportsFailure
       /\ ReportsNoOp
       /\ Len(logged) = 1 /\ logged[1][1] \in {"Nothing to commit in", "Nothing to sync in"}
       /\ lastOp = "sync" => (trace[1].ev = "git pull" /\ trace[1].rc = "ok")

C3_Witness == lastOp = "sync" /\ ~before.dirty /\ CommitNonZero /\ ahead > 0

\* C4: when the pull of a Sync exits non-zero, that Sync launches no add, no
\* commit and no push afterwards and shows no commit-message prompt.
PullFailed == \E i \in Events("git pull") : trace[i].rc # "ok"

C4_SyncStopsAtFailedPull ==
  (lastOp = "sync" /\ PullFailed)
    => /\ ~Launched("git add") /\ ~Launched("git commit") /\ ~Launched("git push")
       /\ ~Launched("commit message")
       /\ ReportsFailureOf(<<"pull">>)

C4_Witness == lastOp = "sync" /\ PullFailed /\ before.dirty

\* C5: in Sync every failing step (pull, stage, commit, push) ends the
\* sequence and the Sync is reported as failed with that step's error, not as
\* a success or a no-op.  A commit fails when it exits non-zero although the
\* tree had changes to commit.
StepFailed(i) ==
  /\ trace[i].kind = "proc"
  /\ trace[i].rc # "ok"
  /\ trace[i].ev = "git commit" => before.dirty

SubCommand(i) ==
  IF trace[i].ev = "git pull" THEN <<"pull">>
  ELSE IF trace[i].ev = "git add" THEN <<"add", ".">>
  ELSE IF trace[i].ev = "git commit" THEN <<"commit", "-m">> \o <<trace[i].arg[2]>>
  ELSE <<"push">>

C5_EveryFailedStepSurfaces ==
  lastOp = "sync"
    => \A i \in 1..Len(trace) :
         StepFailed(i) => (i = Len(trace) /\ ReportsFailureOf(SubCommand(i)) /\ ~ReportsNoOp)

\* C6: when the path is no valid checkout and the user declines the clone
\* prompt, ensure-checkout returns failure, launches no clone and creates no
\* directory.
UserDeclined == \E i \in Events("choice") : trace[i].arg # <<"1">>

C6_DeclineCreatesNothing ==
  (lastOp = "ensure_local_repo" /\ ~before.repoValid /\ UserDeclined)
    => /\ ret = "False" /\ pc = "main"
       /\ ~Launched("git clone") /\ ~Launched("makedirs") /\ ~Launched("url")
       /\ logged = <<>>
       /\ Checkout = before

C6_Witness ==
  lastOp = "ensure_local_repo" /\ UserDeclined /\ ~parentDirs /\ ~repoValid

\* C7: on a valid checkout every call of ensure-checkout returns success
\* without a prompt, a clone, a directory creation or a log entry.
C7_EnsureIdempotent ==
  (lastOp = "ensure_local_repo" /\ before.repoValid)
    => /\ ret = "True" /\ pc = "setup"
       /\ trace = <<>> /\ logged = <<>> /\ out = <<>>
       /\ Checkout = before

\* A later call: unpushed commits show that an earlier session used the checkout.
C7_Witness ==
  lastOp = "ensure_local_repo" /\ before.repoValid /\ ret = "True" /\ ahead > 0

\* C8 (as claimed): whatever step of the upload fails, the scratch directory
\* no longer exists when the upload returns and its removal was attempted
\* exactly once.
Removals == Events("rmtree temp_dir")
TempDirRemoved == \E i \in Removals : trace[i].rc = "ok"
UploadFailedAt(step) == \E i \in Events(step) : trace[i].rc # "ok"

C8_ScratchGoneAfterUpload ==
  lastOp = "upload_file_to_github"
    => (Launched("mkdtemp") /\ Cardinality(Removals) = 1 /\ TempDirRemoved)

\* C8 (amended): on every outcome the removal of the scratch directory is
\* attempted exactly once, as the last step of the upload; the directory is
\* gone when that attempt succeeds, and a removal that fails is ignored.
C8_ScratchRemovalAttemptedOnce ==
  lastOp = "upload_file_to_github"
    => /\ Launched("mkdtemp")
       /\ Cardinality(Removals) = 1
       /\ trace[Len(trace)].ev = "rmtree temp_dir"
       /\ ret = "True" <=> \A i \in 1..(Len(trace) - 1) : trace[i].rc = "ok"

C8_Witness ==
  /\ lastOp = "upload_file_to_github"
  /\ UploadFailedAt("push")
  /\ \E i \in Events("commit") : trace[i].rc = "ok"
  /\ TempDirRemoved

\* C9: in every API pass-through action an error thrown by the remote API
\* yields a displayed message and exactly one action-log entry, and the
\* program goes back to a menu.
PassThroughOps ==
  {"create_repo", "rename_repo", "delete_repo_confirm", "change_repo_visibility",
   "transfer_repository", "list_repos", "list_branches", "create_branch",
   "delete_branch", "switch_default_branch", "create_or_edit_file_via_api",
   "create_folder_placeholder", "delete_file_via_api", "list_files_via_api",
   "view_file_via_api"}

ApiCalls == {i \in 1..Len(trace) : trace[i].kind = "api"}
LastCallRaised == ApiCalls # {} /\ trace[Len(trace)].kind = "api" /\ trace[Len(trace)].rc # "ok"

C9_ApiErrorShownAndLogged ==
  (lastOp \in PassThroughOps /\ LastCallRaised)
    => (Len(out) >= 1 /\ Len(logged) = 1 /\ pc # "exit")

\* C10 (as claimed): every API pass-through action that got past its
\* confirmation issues exactly one remote call.
GateClosed ==
  \/ \E i \in Events("confirm delete") \cup Events("confirm transfer") : trace[i].arg = <<FALSE>>
  \/ \E i \in Events("branch name") : trace[i].arg = <<TRUE>>

LookupThenChange == {"create_branch", "delete_branch", "delete_file_via_api"}

SyncFlowSteps == {"git clone", "git pull", "git add", "git commit", "git push"}
FailedSteps == {i \in 1..Len(trace) : trace[i].ev \in SyncFlowSteps /\ StepFailed(i)}
ErrorPrinted ==
  \E m \in Shown : m[1] \in {"Git command failed:", "Failed to clone repository:"}

\* Where control goes: the main menu after a failed or cancelled
\* ensure-checkout, the local menu after a pull, push or sync; the program
\* ends only on the main menu's Exit or on a keyboard interrupt.
ControlReturnsToMenu ==
  /\ (lastOp = "ensure_local_repo" /\ ret = "False") => pc = "main"
  /\ lastOp \in {"pull", "push", "sync"} => pc = "local"
  /\ pc = "exit" => lastOp \in {"exit", "interrupt"}

\* C11: after a non-zero exit of clone, pull, stage, commit or push the error
\* is printed, the program does not terminate and the enclosing menu is shown
\* again: the main menu after a failed or cancelled ensure-checkout, the local
\* menu after a failed pull, push or sync.
C11_FailureReturnsToMenu ==
  /\ ControlReturnsToMenu
  /\ (lastOp \in {"ensure_local_repo", "pull", "push", "sync"} /\ FailedSteps # {})
       => (ErrorPrinted /\ ~ReportsNoOp)

\* The processes launched by the last step, in launch order.
RECURSIVE ProcsOf(_)
ProcsOf(t) ==
  IF t = <<>> THEN <<>>
  ELSE (IF Head(t).kind = "proc" THEN <<Head(t).ev>> ELSE <<>>) \o ProcsOf(Tail(t))

AllStepsSucceeded == \A i \in 1..Len(trace) : trace[i].rc = "ok"

\* C12: a Push on a valid checkout with a dirty tree in which every step
\* succeeds launches add, commit and push once each, in that order, the push
\* with no argument beyond "git -C <path> push", and ends in Done (success
\* shown and logged, commit made and pushed, local menu shown again); no
\* Push, whatever its outcome, launches a step twice.
C12_PushStepsOnceInOrder ==
  lastOp = "push"
    => /\ \A i, j \in 1..Len(ProcsOf(trace)) :
            ProcsOf(trace)[i] = ProcsOf(trace)[j] => i = j
       /\ (before.repoValid /\ before.dirty /\ AllStepsSucceeded)
            => /\ ProcsOf(trace) = <<"git add", "git commit", "git push">>
               /\ \A i \in Events("git push") : trace[i].arg = <<>>
               /\ <<"Running:", "git", "-C", REPO_PATH, "push">> \in Shown
               /\ out[Len(out)] = <<"Successfully pushed to GitHub!">>
               /\ Len(logged) = 1 /\ logged[1][1] = "Pushed changes in"
               /\ ~dirty /\ ahead = 0
               /\ pc = "local"

C12_Witness ==
  /\ lastOp = "push" /\ before.dirty /\ before.ahead > 0
  /\ AllStepsSucceeded /\ Launched("git push")
  /\ ahead = 0

CommitZero == \E i \in Events("git commit") : trace[i].rc = "ok"
PushFailed == \E i \in Events("git push") : trace[i].rc # "ok"

\* C13: a Push or Sync whose commit succeeded and whose push exited non-zero
\* shows the push failure and keeps the commit (tree clean, one more unpushed
\* commit); a later Push or Sync on the unchanged tree gets a non-zero commit
\* status, reports a no-op, launches no push and leaves the commit unpushed.
\* In every Push or Sync a push is launched only after a commit of the same
\* invocation that exited zero.
C13_FailedPushLeavesCommitUnpushed ==
  lastOp \in {"push", "sync"}
    => /\ (CommitZero /\ PushFailed)
            => /\ ReportsFailureOf(<<"push">>) /\ ~ReportsNoOp
               /\ Len(logged) = 1 /\ logged[1][1] = "Git command failed for"
               /\ ~dirty /\ ahead = before.ahead + 1
               /\ pc = "local"
       /\ (~before.dirty /\ before.ahead > 0)
            => /\ ~Launched("git push")
               /\ ahead = before.ahead
               /\ Launched("git commit") => (CommitNonZero /\ ReportsNoOp /\ ~ReportsFailure)
       /\ \A i \in Events("git push") :
            \E j \in Events("git commit") : j < i /\ trace[j].rc = "ok"

\* The second invocation: a Push on the tree left by a failed push.
C13_Witness ==
  /\ lastOp = "push" /\ ~before.dirty /\ before.ahead > 0
  /\ CommitNonZero /\ ReportsNoOp
  /\ ahead = before.ahead

\* The processes local_git_menu launches against the checkout; the clone of
\* ensure_local_repo is not one of them.
SessionProcs ==
  {"git config user.name", "git config user.email", "git remote get-url",
   "git remote set-url", "git pull", "git add", "git commit", "git push"}

LaunchedInSession == \E i \in 1..Len(trace) : trace[i].ev \in SessionProcs

\* C14: no pull, add, commit, push, identity-config or remote-URL process is
\* launched unless ensure-checkout returned success earlier in the same call
\* of the local menu; a failed ensure-checkout (cancelled, empty URL, clone
\* failed) returns to the main menu without the action menu, launches none of
\* these processes and leaves the path without a checkout, as it was.
C14_NothingLaunchedWithoutEnsure ==
  /\ LaunchedInSession => (ok /\ repoValid)
  /\ pc \in {"setup", "local"} => (ok /\ repoValid)
  /\ (lastOp = "ensure_local_repo" /\ ret = "False")
       => /\ pc = "main" /\ ~ok
          /\ ~LaunchedInSession
          /\ ~repoValid /\ ~before.repoValid
          /\ <<dirty, ahead, origin>> = <<before.dirty, before.ahead, before.origin>>

\* A clone that failed: ensure-checkout got as far as launching a process.
C14_Witness ==
  /\ lastOp = "ensure_local_repo" /\ ret = "False"
  /\ \E i \in Events("git clone") : trace[i].rc # "ok"
  /\ pc = "main"

\* The answers given at the gates of the last step.
Answered(prompt, answer) == \E i \in Events(prompt) : trace[i].arg = <<answer>>
AskedBefore(prompt, call) ==
  \A j \in Events(call) : \E i \in Events(prompt) : i < j /\ trace[i].arg = <<TRUE>>

\* C15: repository delete and repository transfer issue their remote call
\* only after a yes to the confirmation prompt; a decline issues no remote
\* call and writes no log entry, and delete then returns False; branch delete
\* issues no remote call when the branch named is the default branch.
C15_IrreversibleCallsAreGated ==
  /\ lastOp = "delete_repo_confirm"
       => /\ AskedBefore("confirm delete", "delete")
          /\ Answered("confirm delete", FALSE)
               => (ApiCalls = {} /\ logged = <<>> /\ ret = "False" /\ pc # "exit")
  /\ lastOp = "transfer_repository"
       => /\ AskedBefore("confirm transfer", "POST transfer")
          /\ Answered("confirm transfer", FALSE)
               => (ApiCalls = {} /\ logged = <<>> /\ pc = "manage")
  /\ (lastOp = "delete_branch" /\ Answered("branch name", TRUE))
       => (ApiCalls = {} /\ logged = <<>> /\ pc = "manage")

\* A delete declined inside repo_manage_menu, which then stays open.
C15_Witness ==
  /\ lastOp = "delete_repo_confirm"
  /\ Answered("confirm delete", FALSE)
  /\ ret = "False" /\ pc = "manage"

====
